---- MODULE Spec2Model ----
(***************************************************************************)
(* A model of the physically animated "Toy" of The Render Engine           *)
(* (demos/physics/toy.js): the object a Toy builds in its constructor,     *)
(* the five pointer-event handlers it registers, and clicked/applyForce.   *)
(*                                                                         *)
(* A toy is a record.  Every method of the class is an operator from the   *)
(* toy (and the method's arguments) to the toy after the call; an action   *)
(* delivers one event to one toy.  The collaborators the toy calls (the    *)
(* mouse joint, the physics component, the render component) are modelled  *)
(* by what the toy does to them: the calls it makes, in order.             *)
(***************************************************************************)
EXTENDS Integers, Sequences, FiniteSets

VARIABLES toys, events

vars == <<toys, events>>

(* ------------------------------ bounds -------------------------------- *)

\* Pointer events delivered (to all toys together) in one behaviour.
MaxEvents == 4

\* Forces a toy's physics component receives in one behaviour.
MaxForces == 1

\* Pointer events delivered in one behaviour of a playfield of two toys.
MaxEventsTwo == 2

(* ------------------------------ domains ------------------------------- *)

\* The toys a playfield of specification Spec holds.
ToyIds == {1}

\* The toys a playfield of specification SpecTwo holds: two toys attached to
\* the one PhysicsDemo.simulation.
TwoToyIds == {1, 2}

\* Outcomes of the per-variant createPhysicalBody hook: it adds the "physics"
\* component, returns without adding one (the base class's empty body), or
\* throws.
BodyOutcomes == {"body", "nobody", "throws"}

\* Pointer positions carried by mousemove events and clicked() calls.
MousePoints == {<<5, 0>>, <<10, 5>>}

\* Positions the simulation may move a toy's body to.
BodyPositions == {<<0, 0>>, <<50, 0>>}

\* A null reference where a point is expected.
NoPoint == <<>>

\* The event names the constructor registers handlers for.
EventNames == {"mouseover", "mouseout", "mousedown", "mouseup", "mousemove"}

(* --------------------------- 2D vector math --------------------------- *)

\* R.math.Vector2D.create(p).sub(q)
VecSub(p, q) == <<p[1] - q[1], p[2] - q[2]>>

\* Vector2D.mul(k)
VecMul(v, k) == <<v[1] * k, v[2] * k>>

\* The gain clicked() multiplies the offset by.
ClickGain == 200

(* ------------------------------ the toy ------------------------------- *)

\* The object before its constructor has run: the prototype's field values.
NewToy ==
    [ status          |-> "absent",   \* absent | constructed | failed
      element         |-> FALSE,      \* setElement($("<div>")) done
      components      |-> {},         \* names of the components added
      simulation      |-> FALSE,      \* setSimulation done
      rootBody        |-> FALSE,      \* setRootBody done
      sprites         |-> <<>>,       \* this.sprites
      boundingBox     |-> "none",     \* sprite whose bounding box is in use
      sprite          |-> "none",     \* sprite set on the render component
      position        |-> NoPoint,    \* getPosition()
      mouseButtonDown |-> FALSE,
      mouseJoint      |-> FALSE,      \* this.mouseJoint is non-null
      handlers        |-> {},         \* event names with a handler
      jointCalls      |-> <<>>,       \* calls made on the mouse joint
      jointTarget     |-> NoPoint,    \* target the toy gave the mouse joint
      forces          |-> <<>>,       \* applyForce calls on the body
      threw           |-> FALSE ]     \* the last call ended in an exception

\* setSprite(spriteIdx): sprites[spriteIdx] is undefined for an index outside
\* the array, and sprite.getBoundingBox() then throws.
setSprite(self, spriteIdx) ==
    IF spriteIdx + 1 \in DOMAIN self.sprites /\ "physics" \in self.components
    THEN [self EXCEPT !.boundingBox = self.sprites[spriteIdx + 1],
                      !.sprite = self.sprites[spriteIdx + 1]]
    ELSE [self EXCEPT !.threw = TRUE]

\* getActiveImageIndex(): the index in sprites of the sprite being drawn, -1
\* when there is none.
ActiveImageIndex(self) ==
    IF \E i \in DOMAIN self.sprites : self.sprites[i] = self.sprite
    THEN (CHOOSE i \in DOMAIN self.sprites : self.sprites[i] = self.sprite) - 1
    ELSE -1

\* mouseDown as it would be if a release never stopped the joint.
mouseDown_NoStop(self, state) ==
    IF state /\ ~self.mouseButtonDown
    THEN [self EXCEPT !.jointCalls = Append(@, "startSimulation"),
                      !.mouseButtonDown = state]
    ELSE [self EXCEPT !.mouseButtonDown = state]

\* mouseDown as it would be if a release stopped the joint without looking
\* at mouseButtonDown.
mouseDown_AlwaysStops(self, state) ==
    IF state /\ ~self.mouseButtonDown
    THEN [self EXCEPT !.jointCalls = Append(@, "startSimulation"),
                      !.mouseButtonDown = state]
    ELSE IF ~state
         THEN [self EXCEPT !.jointCalls = Append(@, "stopSimulation"),
                           !.mouseButtonDown = state]
         ELSE [self EXCEPT !.mouseButtonDown = state]

\* mouseDown as it would be if a press started the joint without looking at
\* mouseButtonDown.
mouseDown_AlwaysStarts(self, state) ==
    IF state
    THEN [self EXCEPT !.jointCalls = Append(@, "startSimulation"),
                      !.mouseButtonDown = state]
    ELSE IF self.mouseButtonDown
         THEN [self EXCEPT !.jointCalls = Append(@, "stopSimulation"),
                           !.mouseButtonDown = state]
         ELSE [self EXCEPT !.mouseButtonDown = state]

\* mouseDown(state)
mouseDown(self, state) ==
    LET called ==
            IF state /\ ~self.mouseButtonDown
            THEN Append(self.jointCalls, "startSimulation")
            ELSE IF self.mouseButtonDown /\ ~state
                 THEN Append(self.jointCalls, "stopSimulation")
                 ELSE self.jointCalls
    IN  IF called # self.jointCalls /\ ~self.mouseJoint
        THEN [self EXCEPT !.threw = TRUE]
        ELSE [self EXCEPT !.jointCalls = called, !.mouseButtonDown = state]

\* mouseOver as it would be without the release on leaving.
mouseOver_NoRelease(self, state) ==
    setSprite(self, IF state THEN 1 ELSE 0)

\* mouseOver as it would be with the two sprite indices exchanged.
mouseOver_SwappedSprites(self, state) ==
    LET s1 == setSprite(self, IF state THEN 0 ELSE 1)
    IN  IF s1.threw THEN s1
        ELSE IF s1.mouseButtonDown /\ ~state
             THEN [s1 EXCEPT !.jointCalls = Append(@, "stopSimulation"),
                             !.mouseButtonDown = FALSE]
        ELSE s1

\* mouseOver as it would be if it released the button on entering as well as
\* on leaving.
mouseOver_ReleasesOnEnter(self, state) ==
    LET s1 == setSprite(self, IF state THEN 1 ELSE 0)
    IN  IF s1.threw THEN s1
        ELSE IF s1.mouseButtonDown
             THEN [s1 EXCEPT !.jointCalls = Append(@, "stopSimulation"),
                             !.mouseButtonDown = FALSE]
        ELSE s1

\* mouseOver(state)
mouseOver(self, state) ==
    LET s1 == setSprite(self, IF state THEN 1 ELSE 0)
    IN  IF s1.threw THEN s1
        ELSE IF s1.mouseButtonDown /\ ~state THEN mouseDown(s1, FALSE)
        ELSE s1

\* mouseMove as it would be if it handed the pointer position to the joint
\* without testing mouseButtonDown.
mouseMove_Unguarded(self, mInfo) ==
    [self EXCEPT !.jointTarget = mInfo]

\* mouseMove(mInfo): the body of the if is a comment.
mouseMove(self, mInfo) ==
    IF self.mouseButtonDown THEN self ELSE self

\* applyForce as it would be if it applied the force at loc.
applyForce_AtLoc(self, amt, loc) ==
    IF "physics" \in self.components
    THEN [self EXCEPT !.forces = Append(self.forces, [amt |-> amt, at |-> loc])]
    ELSE [self EXCEPT !.threw = TRUE]

\* applyForce(amt, loc): loc is ignored, the force is applied at getPosition().
applyForce(self, amt, loc) ==
    IF "physics" \in self.components
    THEN [self EXCEPT !.forces =
              Append(self.forces, [amt |-> amt, at |-> self.position])]
    ELSE [self EXCEPT !.threw = TRUE]

\* clicked as it would be if, besides applying the force, it began a drag.
clicked_StartsDrag(self, p) ==
    LET force == VecMul(VecSub(p, self.position), ClickGain)
        s1 == applyForce(self, force, p)
    IN  IF s1.threw \/ s1.mouseButtonDown THEN s1
        ELSE [s1 EXCEPT !.jointCalls = Append(@, "startSimulation"),
                        !.mouseButtonDown = TRUE]

\* clicked(p)
clicked(self, p) ==
    LET force == VecMul(VecSub(p, self.position), ClickGain)
    IN  applyForce(self, force, p)

\* createPhysicalBody(componentName, scale): the hook a toy variant overrides.
createPhysicalBody(self, outcome) ==
    CASE outcome = "body"   -> [self EXCEPT !.components = @ \cup {"physics"}]
      [] outcome = "nobody" -> self
      [] outcome = "throws" -> [self EXCEPT !.threw = TRUE]

\* The constructor as it would be if it registered the event handlers
\* first, before the body and the joint exist.
constructor_HandlersFirst(self, outcome) ==
    LET s1 == [self EXCEPT !.mouseButtonDown = FALSE,
                            !.element = TRUE,
                            !.components = @ \cup {"draw", "mouse"},
                            !.simulation = TRUE,
                            !.handlers = EventNames]
        s2 == createPhysicalBody(s1, outcome)
        s3 == IF s2.threw \/ "physics" \notin s2.components
              THEN [s2 EXCEPT !.threw = TRUE]
              ELSE [s2 EXCEPT !.rootBody = TRUE,
                              !.sprites = <<"default", "over">>]
        s4 == IF s3.threw THEN s3 ELSE setSprite(s3, 0)
    IN  IF s4.threw
        THEN [s4 EXCEPT !.status = "failed"]
        ELSE [s4 EXCEPT !.position = <<50, 0>>,
                        !.mouseJoint = TRUE,
                        !.components = @ \cup {"mousejoint"},
                        !.status = "constructed"]

\* The constructor.  A statement that throws ends it there: nothing after it
\* runs, and nothing before it is undone.
constructor(self, outcome) ==
    LET s1 == [self EXCEPT !.mouseButtonDown = FALSE,
                            !.element = TRUE,
                            !.components = @ \cup {"draw", "mouse"},
                            !.simulation = TRUE]
        s2 == createPhysicalBody(s1, outcome)
        \* this.getComponent("physics").setScale(...) on a missing component
        s3 == IF s2.threw \/ "physics" \notin s2.components
              THEN [s2 EXCEPT !.threw = TRUE]
              ELSE [s2 EXCEPT !.rootBody = TRUE,
                              !.sprites = <<"default", "over">>]
        s4 == IF s3.threw THEN s3 ELSE setSprite(s3, 0)
    IN  IF s4.threw
        THEN [s4 EXCEPT !.status = "failed"]
        ELSE [s4 EXCEPT !.position = <<50, 0>>,
                        !.mouseJoint = TRUE,
                        !.components = @ \cup {"mousejoint"},
                        !.handlers = EventNames,
                        !.status = "constructed"]

(* --------------------------- derived state ---------------------------- *)

\* The mouse joint is active: startSimulation was called more recently than
\* stopSimulation.
JointActive(self) ==
    /\ Len(self.jointCalls) > 0
    /\ self.jointCalls[Len(self.jointCalls)] = "startSimulation"

\* isDragging()
IsDragging(self) == self.mouseButtonDown

\* The joint instances the world holds for the toy if every startSimulation
\* inserts one and every stopSimulation removes one.
JointInstances(self) ==
    Cardinality({i \in DOMAIN self.jointCalls :
                     self.jointCalls[i] = "startSimulation"})
    - Cardinality({i \in DOMAIN self.jointCalls :
                       self.jointCalls[i] = "stopSimulation"})

(* ------------------------------ actions ------------------------------- *)

\* What an observer sees of a toy's interaction state: isDragging(), the
\* active image and the calls made on the joint so far.
Observed(self) ==
    [ mouseButtonDown |-> self.mouseButtonDown,
      image           |-> ActiveImageIndex(self),
      jointCalls      |-> self.jointCalls,
      jointTarget     |-> self.jointTarget ]

\* A log entry: the event and what the toy looked like when it arrived.
Ev(t, type, point) ==
    [toy |-> t, type |-> type, point |-> point, before |-> Observed(toys[t])]

\* The events one behaviour delivers, by the size of the playfield.
EventLimit == IF Cardinality(DOMAIN toys) > 1 THEN MaxEventsTwo ELSE MaxEvents

\* Deliver as it would be if mouseButtonDown lived on the prototype the toys
\* share instead of on each instance.
Deliver_SharedFlag(t, type, point, after) ==
    /\ type \in toys[t].handlers
    /\ Len(events) < EventLimit
    /\ toys' = [u \in DOMAIN toys |->
                    IF u = t THEN after
                    ELSE [toys[u] EXCEPT
                              !.mouseButtonDown = after.mouseButtonDown]]
    /\ events' = Append(events, Ev(t, type, point))

\* An event reaches a toy's handler when the toy registered one for it.
Deliver(t, type, point, after) ==
    /\ type \in toys[t].handlers
    /\ Len(events) < EventLimit
    /\ toys' = [toys EXCEPT ![t] = after]
    /\ events' = Append(events, Ev(t, type, point))

\* Toy.create(...)
Construct(t) ==
    /\ toys[t].status = "absent"
    /\ \E outcome \in BodyOutcomes :
           toys' = [toys EXCEPT ![t] = constructor(toys[t], outcome)]
    /\ UNCHANGED events

MouseOverEvt(t) == Deliver(t, "mouseover", NoPoint, mouseOver(toys[t], TRUE))

MouseOutEvt(t) == Deliver(t, "mouseout", NoPoint, mouseOver(toys[t], FALSE))

MouseDownEvt(t) == Deliver(t, "mousedown", NoPoint, mouseDown(toys[t], TRUE))

MouseUpEvt(t) == Deliver(t, "mouseup", NoPoint, mouseDown(toys[t], FALSE))

MouseMoveEvt(t) ==
    \E p \in MousePoints : Deliver(t, "mousemove", p, mouseMove(toys[t], p))

\* A caller invokes clicked(p) on a constructed toy.
ClickedAt(t, p) ==
    /\ toys[t].status = "constructed"
    /\ Len(toys[t].forces) < MaxForces
    /\ toys' = [toys EXCEPT ![t] = clicked(toys[t], p)]
    /\ UNCHANGED events

Clicked(t) == \E p \in MousePoints : ClickedAt(t, p)

\* The simulation the toy was attached to moves its body.
SimulationStep(t) ==
    /\ toys[t].status = "constructed"
    /\ \E q \in BodyPositions \ {toys[t].position} :
           toys' = [toys EXCEPT ![t].position = q]
    /\ UNCHANGED events

Init ==
    /\ toys = [t \in ToyIds |-> NewToy]
    /\ events = <<>>

Next ==
    \E t \in ToyIds :
        \/ Construct(t)
        \/ MouseOverEvt(t)
        \/ MouseOutEvt(t)
        \/ MouseDownEvt(t)
        \/ MouseUpEvt(t)
        \/ MouseMoveEvt(t)
        \/ Clicked(t)
        \/ SimulationStep(t)

Spec == Init /\ [][Next]_vars

\* Two toys on one playfield; their bodies stay where the constructor put
\* them.
InitTwo ==
    /\ toys = [t \in TwoToyIds |-> NewToy]
    /\ events = <<>>

NextTwo ==
    \E t \in TwoToyIds :
        \/ Construct(t)
        \/ MouseOverEvt(t)
        \/ MouseOutEvt(t)
        \/ MouseDownEvt(t)
        \/ MouseUpEvt(t)
        \/ MouseMoveEvt(t)
        \/ Clicked(t)

SpecTwo == InitTwo /\ [][NextTwo]_vars

(* ----------------------- the event history ---------------------------- *)

\* The pointer events delivered to toy t so far, oldest first.
RECURSIVE EventsOf(_, _)
EventsOf(log, t) ==
    IF log = <<>> THEN <<>>
    ELSE LET rest == EventsOf(SubSeq(log, 1, Len(log) - 1), t)
             last == log[Len(log)]
         IN  IF last.toy = t THEN Append(rest, last) ELSE rest

\* The last event delivered to toy t is of the given type.
LastEventIs(t, type) ==
    LET h == EventsOf(events, t)
    IN  Len(h) > 0 /\ h[Len(h)].type = type

\* The last two events delivered to toy t are of the given types, in order.
LastTwoEventsAre(t, first, second) ==
    LET h == EventsOf(events, t)
    IN  /\ Len(h) > 1
        /\ h[Len(h) - 1].type = first
        /\ h[Len(h)].type = second

\* A pointer event of any kind is delivered to toy t in this step.
PointerEvent(t) ==
    \/ MouseOverEvt(t)
    \/ MouseOutEvt(t)
    \/ MouseDownEvt(t)
    \/ MouseUpEvt(t)
    \/ MouseMoveEvt(t)

(* ------------------------------ claims -------------------------------- *)

\* C1: after every pointer event, in any sequence, the mouse joint of a
\* constructed toy is active (startSimulation called more recently than
\* stopSimulation) if and only if mouseButtonDown is true.
C1_JointActiveIffButtonDown ==
    \A t \in ToyIds :
        toys[t].status = "constructed" =>
            (JointActive(toys[t]) <=> toys[t].mouseButtonDown)

\* C1 witness: a drag ended by a mouseout: the button flag and the joint are
\* both off again after having been on.
C1_Witness ==
    \E t \in ToyIds :
        /\ LastTwoEventsAre(t, "mousedown", "mouseout")
        /\ ~toys[t].mouseButtonDown
        /\ ~JointActive(toys[t])
        /\ Len(toys[t].jointCalls) = 2

\* C2: a mouseout received while mouseButtonDown is true is an implicit
\* mouseup: the step stops the joint and clears mouseButtonDown, and it
\* selects sprite 0.
C2_LeaveWhileDraggingReleases ==
    [][\A t \in ToyIds :
          (MouseOutEvt(t) /\ toys[t].mouseButtonDown) =>
              /\ ~toys'[t].mouseButtonDown
              /\ toys'[t].jointCalls =
                     Append(toys[t].jointCalls, "stopSimulation")
              /\ ActiveImageIndex(toys'[t]) = 0]_vars

\* C2 witness: a mouseout arrived right after a mousedown, over a hovered toy.
C2_Witness ==
    \E t \in ToyIds :
        /\ Len(EventsOf(events, t)) > 2
        /\ LastTwoEventsAre(t, "mousedown", "mouseout")
        /\ EventsOf(events, t)[Len(EventsOf(events, t)) - 2].type = "mouseover"
        /\ ActiveImageIndex(toys[t]) = 0

\* C3 as stated: a mouseout received while mouseButtonDown is true leaves
\* mouseButtonDown true and the joint active (the drag lasts until a mouseup).
C3_Original_DragPersistsAcrossLeave ==
    [][\A t \in ToyIds :
          (MouseOutEvt(t) /\ toys[t].mouseButtonDown) =>
              (toys'[t].mouseButtonDown /\ JointActive(toys'[t]))]_vars

\* C3 amended: leaving the toy's bounds ends the drag.  Whenever the last
\* event a toy received is a mouseout, mouseButtonDown is false, the joint is
\* not active and sprite 0 is drawn, whether or not a drag was under way.
C3_LeaveEndsDrag ==
    \A t \in ToyIds :
        LastEventIs(t, "mouseout") =>
            /\ ~toys[t].mouseButtonDown
            /\ ~JointActive(toys[t])
            /\ ActiveImageIndex(toys[t]) = 0

\* C3 witness: the toy was being dragged (a start was issued) and the last
\* event is a mouseout with no mouseup before it.
C3_Witness ==
    \E t \in ToyIds :
        /\ LastTwoEventsAre(t, "mousedown", "mouseout")
        /\ toys[t].jointCalls = <<"startSimulation", "stopSimulation">>

\* hoverState: the pointer is over the toy, that is, the last mouseover or
\* mouseout the toy received is a mouseover.
HoverState(t) ==
    LET h == EventsOf(events, t)
        io == {i \in DOMAIN h : h[i].type \in {"mouseover", "mouseout"}}
    IN  /\ io # {}
        /\ h[CHOOSE i \in io : \A j \in io : j <= i].type = "mouseover"

\* C4: exactly one of the two sprites is active and which one is a function
\* of hoverState alone: sprite 0 after construction and after a mouseout,
\* sprite 1 after a mouseover, whatever mousedown, mouseup and mousemove
\* events came in between and whatever mouseButtonDown is.
C4_ImageIsFunctionOfHover ==
    \A t \in ToyIds :
        toys[t].status = "constructed" =>
            /\ toys[t].sprite \in {"default", "over"}
            /\ ActiveImageIndex(toys[t]) = IF HoverState(t) THEN 1 ELSE 0

\* C4 witness: a hovered toy was pressed and the pointer moved: sprite 1 is
\* still the active one during the drag.
C4_Witness ==
    \E t \in ToyIds :
        /\ HoverState(t)
        /\ LastTwoEventsAre(t, "mousedown", "mousemove")
        /\ toys[t].mouseButtonDown
        /\ ActiveImageIndex(toys[t]) = 1

\* The drag the event history calls for: among the events after the most
\* recent mouseout there is a mousedown with no mouseup after it.
DragExpected(t) ==
    LET h == EventsOf(events, t)
        outs == {i \in DOMAIN h : h[i].type = "mouseout"}
        from == IF outs = {} THEN 0
                ELSE CHOOSE i \in outs : \A j \in outs : j <= i
    IN  \E i \in DOMAIN h :
            /\ i > from
            /\ h[i].type = "mousedown"
            /\ \A j \in DOMAIN h : j > i => h[j].type # "mouseup"

\* C5: for every sequence of pointer events, mouseButtonDown is true iff,
\* counting only the events after the most recent mouseout, there is a
\* mousedown that no mouseup follows.
C5_DragIffUnreleasedPress ==
    \A t \in ToyIds :
        toys[t].status = "constructed" =>
            (toys[t].mouseButtonDown <=> DragExpected(t))

\* C5 witness: a drag that began after an earlier drag was cut by a mouseout.
C5_Witness ==
    \E t \in ToyIds :
        /\ toys[t].mouseButtonDown
        /\ \E i \in DOMAIN EventsOf(events, t) :
               /\ i > 1
               /\ EventsOf(events, t)[i].type = "mouseout"
               /\ EventsOf(events, t)[i - 1].type = "mousedown"

\* C6: after a mousemove(point) received while mouseButtonDown is true the
\* mouse joint's target is that point and isDragging() is true.
C6_MoveWhileDraggingSetsTarget ==
    \A t \in ToyIds :
        (LastEventIs(t, "mousemove") /\ toys[t].mouseButtonDown) =>
            LET h == EventsOf(events, t)
            IN  /\ toys[t].jointTarget = h[Len(h)].point
                /\ IsDragging(toys[t])

\* C7: no pointer event, in any order, ends in an exception, and a mouseup
\* received while mouseButtonDown is false changes nothing of the toy: no
\* call on the joint, the same mouseButtonDown, the same sprite.
C7_ReleaseWithoutPressIsNoOp ==
    [][\A t \in ToyIds :
          /\ PointerEvent(t) => ~toys'[t].threw
          /\ (MouseUpEvt(t) /\ ~toys[t].mouseButtonDown) =>
                 toys'[t] = toys[t]]_vars

\* C7 witness: the first event a toy ever received is a mouseup, and its
\* joint has not been called.
C7_Witness ==
    \E t \in ToyIds :
        /\ Len(EventsOf(events, t)) > 0
        /\ EventsOf(events, t)[1].type = "mouseup"
        /\ LastEventIs(t, "mouseup")
        /\ toys[t].jointCalls = <<>>
        /\ ~toys[t].threw

\* C8: the calls on the joint alternate strictly, startSimulation first, so a
\* repeated mousedown issues no second start, a repeated mouseup no second
\* stop, and the world never holds more than one joint instance for the toy.
C8_StartStopAlternate ==
    \A t \in ToyIds :
        /\ \A i \in DOMAIN toys[t].jointCalls :
               toys[t].jointCalls[i] =
                   IF i % 2 = 1 THEN "startSimulation" ELSE "stopSimulation"
        /\ JointInstances(toys[t]) \in {0, 1}

\* C8 witness: two presses in a row then two releases in a row left exactly
\* one start and one stop.
C8_Witness ==
    \E t \in ToyIds :
        LET h == EventsOf(events, t)
        IN  /\ Len(h) = 4
            /\ h[1].type = "mousedown" /\ h[2].type = "mousedown"
            /\ h[3].type = "mouseup" /\ h[4].type = "mouseup"
            /\ toys[t].jointCalls = <<"startSimulation", "stopSimulation">>

C10_ConstructionFailsAtomically ==
    \A t \in ToyIds :
        toys[t].status = "failed" =>
            /\ "physics" \notin toys[t].components
            /\ ~toys[t].mouseJoint
            /\ toys[t].handlers = {}
            /\ toys[t].components = {}
            /\ ~toys[t].element

C12_PressReleaseRoundTrip ==
    \A t \in ToyIds :
        LET h == EventsOf(events, t)
        IN  (/\ LastTwoEventsAre(t, "mousedown", "mouseup")
             /\ ~h[Len(h) - 1].before.mouseButtonDown) =>
                /\ ~JointActive(toys[t])
                /\ ~IsDragging(toys[t])
                /\ ActiveImageIndex(toys[t]) = h[Len(h) - 1].before.image
                /\ toys[t].jointCalls =
                       h[Len(h) - 1].before.jointCalls
                           \o <<"startSimulation", "stopSimulation">>

\* C12 witness: a hovered, idle toy was pressed and released.
C12_Witness ==
    \E t \in ToyIds :
        LET h == EventsOf(events, t)
        IN  /\ LastTwoEventsAre(t, "mousedown", "mouseup")
            /\ ~h[Len(h) - 1].before.mouseButtonDown
            /\ h[Len(h) - 1].before.image = 1
            /\ ActiveImageIndex(toys[t]) = 1
            /\ Len(toys[t].jointCalls) = 2

\* C13: construction runs body factory, then joint, then handlers, and a
\* fresh toy is idle.  A toy with a handler has a joint, a toy with a joint
\* has a body (so no event is handled before both exist), and a constructed
\* toy that has received no event has mouseButtonDown false, sprite 0 active
\* and a joint that was never started.
C13_ConstructionOrderAndIdle ==
    \A t \in ToyIds :
        /\ toys[t].handlers # {} => toys[t].mouseJoint
        /\ toys[t].mouseJoint =>
               ("physics" \in toys[t].components /\ toys[t].rootBody)
        /\ EventsOf(events, t) # <<>> =>
               (toys[t].mouseJoint /\ "physics" \in toys[t].components)
        /\ (toys[t].status = "constructed" /\ EventsOf(events, t) = <<>>) =>
               /\ ~toys[t].mouseButtonDown
               /\ ActiveImageIndex(toys[t]) = 0
               /\ toys[t].mouseJoint
               /\ "mousejoint" \in toys[t].components
               /\ toys[t].jointCalls = <<>>
               /\ toys[t].handlers = EventNames

\* C13 witness: a freshly constructed toy, before any event.
C13_Witness ==
    \E t \in ToyIds :
        /\ toys[t].status = "constructed"
        /\ EventsOf(events, t) = <<>>
        /\ toys[t].forces = <<>>
        /\ toys[t].position = <<50, 0>>
        /\ toys[t].handlers = EventNames

\* C14: a mousedown starts a drag only when the pointer is inside the toy's
\* bounds, so in every reachable state mouseButtonDown implies hoverState
\* and with it the active image index 1.
C14_DragImpliesHover ==
    \A t \in ToyIds :
        toys[t].mouseButtonDown =>
            (HoverState(t) /\ ActiveImageIndex(toys[t]) = 1)

\* C15: a mousemove received while mouseButtonDown is false has no effect:
\* mouseButtonDown, the joint's calls and target, the sprite and the body are
\* what they were.
C15_MoveWhileIdleIsNoOp ==
    [][\A t \in ToyIds :
          (MouseMoveEvt(t) /\ ~toys[t].mouseButtonDown) =>
              /\ Observed(toys'[t]) = Observed(toys[t])
              /\ toys'[t].position = toys[t].position
              /\ toys'[t].forces = toys[t].forces
              /\ toys'[t].components = toys[t].components
              /\ ~toys'[t].threw]_vars

\* C15 witness: the last event of an idle toy is a mousemove and the joint
\* has neither a call nor a target.
C15_Witness ==
    \E t \in ToyIds :
        LET h == EventsOf(events, t)
        IN  /\ LastEventIs(t, "mousemove")
            /\ ~h[Len(h)].before.mouseButtonDown
            /\ h[Len(h)].point = <<10, 5>>
            /\ toys[t].jointCalls = <<>>
            /\ toys[t].jointTarget = NoPoint

\* C16: clicked(p) is independent of the drag state machine: in whatever
\* state it is invoked it leaves mouseButtonDown, the joint's activation and
\* the active image unchanged and makes no call on the joint.
C16_ClickLeavesDragStateAlone ==
    [][\A t \in ToyIds :
          Clicked(t) =>
              /\ toys'[t].mouseButtonDown = toys[t].mouseButtonDown
              /\ toys'[t].jointCalls = toys[t].jointCalls
              /\ JointActive(toys'[t]) = JointActive(toys[t])
              /\ ActiveImageIndex(toys'[t]) = ActiveImageIndex(toys[t])
              /\ ~toys'[t].threw]_vars

\* C16 witness: a toy was clicked in the middle of a drag, hovered, and is
\* still being dragged.
C16_Witness ==
    \E t \in ToyIds :
        /\ Len(toys[t].forces) = 1
        /\ toys[t].mouseButtonDown
        /\ toys[t].jointCalls = <<"startSimulation">>
        /\ ActiveImageIndex(toys[t]) = 1

\* C17: a mouseover changes only the sprite selection: in any state, a drag
\* included, it leaves mouseButtonDown and the joint's activation as they
\* were and makes no call on the joint.
C17_EnterChangesOnlyImage ==
    [][\A t \in ToyIds :
          MouseOverEvt(t) =>
              /\ toys'[t].mouseButtonDown = toys[t].mouseButtonDown
              /\ toys'[t].jointCalls = toys[t].jointCalls
              /\ toys'[t].jointTarget = toys[t].jointTarget
              /\ toys'[t].forces = toys[t].forces
              /\ toys'[t].position = toys[t].position
              /\ ActiveImageIndex(toys'[t]) = 1]_vars

\* C17 witness: a mouseover arrived during a drag, and the drag goes on.
C17_Witness ==
    \E t \in ToyIds :
        /\ LastTwoEventsAre(t, "mousedown", "mouseover")
        /\ toys[t].mouseButtonDown
        /\ JointActive(toys[t])
        /\ ActiveImageIndex(toys[t]) = 1

====
